---------------------------- MODULE Spec2Model ----------------------------
(***************************************************************************)
(* Patient Management System (src/main.py): a FastAPI application that     *)
(* keeps patient records in one JSON file, patients.json, which every      *)
(* handler loads whole and every mutating handler rewrites whole.          *)
(*                                                                         *)
(* Encoding of JSON values.  A JSON object (a Python dict) is a function   *)
(* from its keys to values; a value is None (JSON null) or Some(v).        *)
(* height is in centimetres and weight in kilograms, as in the source;     *)
(* bmi, which the source rounds to two decimals, is counted in hundredths  *)
(* (2667 stands for 26.67).  The JSON object of the file keeps its         *)
(* insertion order (json.load builds a dict in file order), so the file    *)
(* content is a sequence of entries [id, rec].                             *)
(***************************************************************************)
EXTENDS Integers, Sequences, FiniteSets, TLC

VARIABLES
    store,      \* content of patients.json when it holds a JSON object
    fileState,  \* "json", or "empty"/"garbage" while writers overlap
    pc,         \* sequential client: "idle", "received", "responded"
    req,        \* the request in flight
    resp,       \* the response to it
    io,         \* whether the handler of resp called load_data and save_data
    written,    \* the ids whose record a Create or an Update has saved
    workers,    \* concurrent requests, each served on its own thread
    writer      \* the worker whose json.dump reached the file last (0: none)

vars == <<store, fileState, pc, req, resp, io, written, workers, writer>>

-----------------------------------------------------------------------------
(* JSON values and dicts *)

None == <<>>

Some(v) == <<v>>

IsNone(x) == x = <<>>

Val(x) == x[1]

BaseFields == {"name", "city", "age", "gender", "height", "weight"}

DerivedFields == {"bmi", "verdict"}

GENDERS == {"Male", "Female", "Other"}

\* d restricted to the keys in S
Restrict(d, S) == [k \in (DOMAIN d) \cap S |-> d[k]]

\* Merge with a stored key kept over the patch's
MergeKeepStored(a, b) == [k \in (DOMAIN a) \cup (DOMAIN b) |-> IF k \in DOMAIN a THEN a[k] ELSE b[k]]

\* dict a after "for key, value in b.items(): a[key] = value"
Merge(a, b) == [k \in (DOMAIN a) \cup (DOMAIN b) |-> IF k \in DOMAIN b THEN b[k] ELSE a[k]]

-----------------------------------------------------------------------------
(* The Store: load_data / save_data over an insertion-ordered mapping *)

Keys(data) == {data[i].id : i \in DOMAIN data}

IndexOf(data, id) == CHOOSE i \in DOMAIN data : data[i].id = id

Get(data, id) == data[IndexOf(data, id)].rec

\* data[id] = rec : an existing key keeps its position, a new key goes last
Put(data, id, rec) ==
    IF id \in Keys(data)
    THEN [data EXCEPT ![IndexOf(data, id)].rec = rec]
    ELSE Append(data, [id |-> id, rec |-> rec])

\* data.values()
Values(data) == [i \in DOMAIN data |-> data[i].rec]

\* json.load of the file: the mapping that json.dump wrote
load_data(file) == file

\* json.dump of the whole mapping over the old content
save_data(data) == data

-----------------------------------------------------------------------------
(* Record Model: class Patient *)

\* pydantic accepts the keyword arguments d as a Patient: every field is
\* required and typed (None is rejected), extra keys are ignored
PatientValid(d) ==
    /\ BaseFields \cup {"id"} \subseteq DOMAIN d
    /\ \A k \in BaseFields \cup {"id"} : ~IsNone(d[k])
    /\ Val(d["age"]) > 0 /\ Val(d["age"]) < 120
    /\ Val(d["gender"]) \in GENDERS
    /\ Val(d["height"]) > 0
    /\ Val(d["weight"]) > 0

\* the validated instance: the seven declared fields
Patient(d) == Restrict(d, BaseFields \cup {"id"})

\* Python round(num/den, 2) counted in hundredths: nearest, ties to even
RoundHalfEven(num, den) ==
    LET q == num \div den
        r == num % den
    IN  IF 2 * r < den THEN q
        ELSE IF 2 * r > den THEN q + 1
        ELSE IF q % 2 = 0 THEN q ELSE q + 1

\* round(weight / (height/100)**2, 2), in hundredths
bmi(p) == RoundHalfEven(Val(p["weight"]) * 1000000, Val(p["height"]) * Val(p["height"]))

\* verdictOf with a final else that labels 30 and above Obese
verdictOfWithElse(bmi_value) ==
    IF bmi_value < 1850 THEN Some("Underweight")
    ELSE IF 1850 <= bmi_value /\ bmi_value < 2500 THEN Some("Normal")
    ELSE Some("Obese")

verdictOf(bmi_value) ==
    IF bmi_value < 1850 THEN Some("Underweight")
    ELSE IF 1850 <= bmi_value /\ bmi_value < 2500 THEN Some("Normal")
    ELSE IF 2500 <= bmi_value /\ bmi_value < 3000 THEN Some("Obese")
    ELSE None

verdict(p) == verdictOf(bmi(p))

\* model_dump with no exclude: the id is dumped too
model_dump_all(p) ==
    [k \in BaseFields \cup DerivedFields \cup {"id"} |->
        IF k = "bmi" THEN Some(bmi(p))
        ELSE IF k = "verdict" THEN verdict(p)
        ELSE p[k]]

\* p.model_dump(exclude=['id']): declared fields and computed fields, less id
model_dump(p) ==
    [k \in BaseFields \cup DerivedFields |->
        IF k = "bmi" THEN Some(bmi(p))
        ELSE IF k = "verdict" THEN verdict(p)
        ELSE p[k]]

\* pydantic accepts the body d as a PatientUpdate: every field optional,
\* None allowed, a value present must meet the field's constraint
PatientUpdateValid(d) ==
    /\ DOMAIN d \subseteq BaseFields
    /\ "age" \in DOMAIN d /\ ~IsNone(d["age"]) => Val(d["age"]) > 0 /\ Val(d["age"]) < 120
    /\ "gender" \in DOMAIN d /\ ~IsNone(d["gender"]) => Val(d["gender"]) \in GENDERS
    /\ "height" \in DOMAIN d /\ ~IsNone(d["height"]) => Val(d["height"]) > 0
    /\ "weight" \in DOMAIN d /\ ~IsNone(d["weight"]) => Val(d["weight"]) > 0


-----------------------------------------------------------------------------
(* Request handlers.  Each yields the response (status, detail or message, *)
(* returned records), the file content it leaves, and whether it called    *)
(* load_data and save_data.                                                *)

Response(status, msg, out) == [status |-> status, msg |-> msg, out |-> out]

Result(r, file, loaded, saved) == [resp |-> r, file |-> file, loaded |-> loaded, saved |-> saved]

\* FastAPI answers a body the declared model rejects with 422 before the
\* handler is called
RequestValidationError(file) ==
    Result(Response(422, "Unprocessable Entity", <<>>), file, FALSE, FALSE)

\* an exception other than HTTPException leaves the handler: 500
ServerError(file) ==
    Result(Response(500, "Internal Server Error", <<>>), file, TRUE, FALSE)

\* GET /view
view_patients(file) ==
    LET data == load_data(file)
    IN  Result(Response(200, "", data), file, TRUE, FALSE)

\* GET /view/{patient_id}
view_patient(file, patient_id) ==
    LET data == load_data(file)
    IN  IF patient_id \in Keys(data)
        THEN Result(Response(200, "", <<Get(data, patient_id)>>), file, TRUE, FALSE)
        ELSE Result(Response(404, "Patient not found", <<>>), file, TRUE, FALSE)

\* lambda x: x.get(sort_by, 0)
SortKey(x, sort_by) == IF sort_by \in DOMAIN x THEN Val(x[sort_by]) ELSE 0

\* x inserted into the ascending list s after every element not above it
RECURSIVE InsertSorted(_, _, _)
InsertSorted(s, x, sort_by) ==
    IF s = <<>> THEN <<x>>
    ELSE IF SortKey(x, sort_by) < SortKey(Head(s), sort_by)
         THEN <<x>> \o s
         ELSE <<Head(s)>> \o InsertSorted(Tail(s), x, sort_by)

\* a stable ascending sort of s by SortKey
RECURSIVE StableSort(_, _)
StableSort(s, sort_by) ==
    IF s = <<>> THEN <<>>
    ELSE InsertSorted(StableSort(SubSeq(s, 1, Len(s) - 1), sort_by), s[Len(s)], sort_by)

Reverse(s) == [i \in 1..Len(s) |-> s[Len(s) + 1 - i]]

\* sorted that sorts ascending and reverses the result
sortedThenReversed(values, sort_by, reverse) ==
    IF reverse
    THEN Reverse(StableSort(values, sort_by))
    ELSE StableSort(values, sort_by)

\* sorted(values, key=..., reverse=...): with reverse the list is reversed,
\* sorted stably and reversed again, which keeps equal keys in input order
sorted(values, sort_by, reverse) ==
    IF reverse
    THEN Reverse(StableSort(Reverse(values), sort_by))
    ELSE StableSort(values, sort_by)

valid_fields == {"height", "weight", "bmi"}

\* sort_patients that checks the order first
sort_patients_order_first(file, sort_by, order) ==
    IF order \notin {"asc", "desc"}
    THEN Result(Response(400, "Invalid order", <<>>), file, FALSE, FALSE)
    ELSE IF sort_by \notin valid_fields
    THEN Result(Response(400, "Invalid sort field", <<>>), file, FALSE, FALSE)
    ELSE LET data == load_data(file)
         IN  Result(Response(200, "", sorted(Values(data), sort_by, order = "desc")),
                    file, TRUE, FALSE)

\* GET /sort
sort_patients(file, sort_by, order) ==
    IF sort_by \notin valid_fields
    THEN Result(Response(400, "Invalid sort field", <<>>), file, FALSE, FALSE)
    ELSE IF order \notin {"asc", "desc"}
    THEN Result(Response(400, "Invalid order", <<>>), file, FALSE, FALSE)
    ELSE LET data == load_data(file)
         IN  Result(Response(200, "", sorted(Values(data), sort_by, order = "desc")),
                    file, TRUE, FALSE)

\* create_loaded without the check for an existing id
create_loaded_unchecked(data, patient) ==
    [resp |-> Response(201, "Patient created successfully.", <<>>), save |-> TRUE,
     data |-> Put(data, Val(patient["id"]), model_dump(patient))]

\* create_patient after load_data: the response, and the mapping to save
create_loaded(data, patient) ==
    IF Val(patient["id"]) \in Keys(data)
    THEN [resp |-> Response(400, "Patient ID already exists.", <<>>), save |-> FALSE, data |-> data]
    ELSE [resp |-> Response(201, "Patient created successfully.", <<>>), save |-> TRUE,
          data |-> Put(data, Val(patient["id"]), model_dump(patient))]

\* POST /create
create_patient(file, body) ==
    IF ~PatientValid(body) THEN RequestValidationError(file)
    ELSE LET r == create_loaded(load_data(file), Patient(body))
         IN  Result(r.resp, IF r.save THEN save_data(r.data) ELSE file, TRUE, r.save)

\* update_loaded that takes a missing id for an empty record
update_loaded_upsert(data, patient_id, updated_data) ==
    LET existing_patient_data ==
            Merge(IF patient_id \in Keys(data) THEN Get(data, patient_id) ELSE <<>>, updated_data)
        kwargs == Merge(existing_patient_data, [k \in {"id"} |-> Some(patient_id)])
    IN  IF ~PatientValid(kwargs)
        THEN [resp |-> Response(500, "Internal Server Error", <<>>), save |-> FALSE,
              data |-> data]
        ELSE [resp |-> Response(200, "Patient updated successfully.", <<>>), save |-> TRUE,
              data |-> Put(data, patient_id, model_dump(Patient(kwargs)))]

\* update_loaded that saves the merged dict without building a Patient from it
update_loaded_unvalidated(data, patient_id, updated_data) ==
    IF patient_id \notin Keys(data)
    THEN [resp |-> Response(404, "Patient not found.", <<>>), save |-> FALSE, data |-> data]
    ELSE [resp |-> Response(200, "Patient updated successfully.", <<>>), save |-> TRUE,
          data |-> Put(data, patient_id, Merge(Get(data, patient_id), updated_data))]

\* update_patient after load_data: the response, and the mapping to save
update_loaded(data, patient_id, updated_data) ==
    IF patient_id \notin Keys(data)
    THEN [resp |-> Response(404, "Patient not found.", <<>>), save |-> FALSE, data |-> data]
    ELSE LET existing_patient_data == Merge(Get(data, patient_id), updated_data)
             kwargs == Merge(existing_patient_data, [k \in {"id"} |-> Some(patient_id)])
         IN  IF ~PatientValid(kwargs)
             THEN [resp |-> Response(500, "Internal Server Error", <<>>), save |-> FALSE,
                   data |-> data]
             ELSE [resp |-> Response(200, "Patient updated successfully.", <<>>), save |-> TRUE,
                   data |-> Put(data, patient_id, model_dump(Patient(kwargs)))]

\* PUT /update/{patient_id}; the body's set fields are model_dump(exclude_unset=True)
update_patient(file, patient_id, body) ==
    IF ~PatientUpdateValid(body) THEN RequestValidationError(file)
    ELSE LET r == update_loaded(load_data(file), patient_id, body)
         IN  Result(r.resp, IF r.save THEN save_data(r.data) ELSE file, TRUE, r.save)

-----------------------------------------------------------------------------
(* Inputs: the requests a client sends, and the file the service starts on *)

Body(id, name, city, age, gender, height, weight) ==
    [id |-> Some(id), name |-> Some(name), city |-> Some(city), age |-> Some(age),
     gender |-> Some(gender), height |-> Some(height), weight |-> Some(weight)]

CreateIds == {"P001", "P002"}

\* P004 is never created
UpdateIds == {"P001", "P004"}

GoodBodies ==
    {Body(i, "Ann", "Pune", 30, "Male", 100, w) : i \in CreateIds, w \in {20, 30}}
        \cup {Body("P002", "Eve", "Oslo", 119, "Other", 150, 25)}

\* bodies the Patient model rejects: a bound crossed, a value outside the
\* Literal, a null, a missing field
BadBodies ==
    UNION {{[Body(i, "Ann", "Pune", 30, "Male", 100, 20) EXCEPT !["age"] = Some(a)] : a \in {0, 120}}
           \cup {[Body(i, "Ann", "Pune", 30, "Male", 100, 20) EXCEPT !["gender"] = Some("X")],
                 [Body(i, "Ann", "Pune", 30, "Male", 100, 20) EXCEPT !["height"] = Some(0)],
                 [Body(i, "Ann", "Pune", 30, "Male", 100, 20) EXCEPT !["weight"] = Some(0)],
                 [Body(i, "Ann", "Pune", 30, "Male", 100, 20) EXCEPT !["name"] = None],
                 Restrict(Body(i, "Ann", "Pune", 30, "Male", 100, 20), (BaseFields \cup {"id"}) \ {"city"})}
           : i \in CreateIds}

CreateBodies == GoodBodies \cup BadBodies

FullPatch ==
    [name |-> Some("Bob"), city |-> Some("Oslo"), age |-> Some(45),
     gender |-> Some("Female"), height |-> Some(150), weight |-> Some(25)]

\* a PUT body is any subset of the fields: each with a value, one of them
\* null, or one of them outside its constraint
Patches ==
    {Restrict(FullPatch, S) : S \in SUBSET BaseFields}
        \cup {[k \in {f} |-> None] : f \in BaseFields}
        \cup {[age |-> None, weight |-> Some(25)], [height |-> Some(150), weight |-> None]}
        \cup {[age |-> Some(0)], [age |-> Some(120)], [gender |-> Some("X")],
              [height |-> Some(0)], [weight |-> Some(0)], [name |-> Some("Bob"), weight |-> Some(0)]}

SortFields == {"height", "weight", "bmi", "name"}

SortOrders == {"asc", "desc", "up"}

Requests ==
    {[op |-> "view"]}
        \cup {[op |-> "view_one", id |-> i] : i \in {"P001", "P004"}}
        \cup {[op |-> "sort", sort_by |-> f, order |-> o] : f \in SortFields, o \in SortOrders}
        \cup {[op |-> "create", body |-> b] : b \in CreateBodies}
        \cup {[op |-> "update", id |-> i, body |-> b] : i \in UpdateIds, b \in Patches}

\* a record written by hand into patients.json: the six fields only
RawRecord(name) ==
    [name |-> Some(name), city |-> Some("Agra"), age |-> Some(60),
     gender |-> Some("Male"), height |-> Some(100), weight |-> Some(25)]

\* the file the service starts on: empty, or written by hand
InitStores ==
    {<<>>,
     <<[id |-> "P003", rec |-> RawRecord("Raj")]>>,
     <<[id |-> "P003", rec |-> RawRecord("Raj")], [id |-> "P001", rec |-> RawRecord("Sam")]>>}

NoRequest == [op |-> "none"]

NoResponse == Response(0, "", <<>>)

NoIO == [loaded |-> FALSE, saved |-> FALSE]

-----------------------------------------------------------------------------
(* One request at a time: received, handled whole, answered *)

\* the id a mutating request writes under
ReqId(r) == IF r.op = "create" THEN Val(r.body["id"]) ELSE r.id

Dispatch(file, r) ==
    CASE r.op = "view" -> view_patients(file)
      [] r.op = "view_one" -> view_patient(file, r.id)
      [] r.op = "sort" -> sort_patients(file, r.sort_by, r.order)
      [] r.op = "create" -> create_patient(file, r.body)
      [] r.op = "update" -> update_patient(file, r.id, r.body)

NumWorkers == 2

Workers == 1..NumWorkers

Idle == [pc |-> "idle", req |-> NoRequest, snap |-> <<>>, data |-> <<>>, resp |-> NoResponse]

IdleWorkers == [w \in Workers |-> Idle]

Init ==
    /\ store \in InitStores
    /\ fileState = "json"
    /\ pc = "idle"
    /\ req = NoRequest
    /\ resp = NoResponse
    /\ io = NoIO
    /\ written = {}
    /\ workers = IdleWorkers
    /\ writer = 0

Receive ==
    /\ pc = "idle"
    /\ \E r \in Requests : req' = r
    /\ pc' = "received"
    /\ UNCHANGED <<store, fileState, resp, io, written, workers, writer>>

Handle ==
    /\ pc = "received"
    /\ LET r == Dispatch(store, req)
       IN  /\ store' = r.file
           /\ resp' = r.resp
           /\ io' = [loaded |-> r.loaded, saved |-> r.saved]
           /\ written' = IF r.saved THEN written \cup {ReqId(req)} ELSE written
    /\ pc' = "responded"
    /\ UNCHANGED <<fileState, req, workers, writer>>

Reply ==
    /\ pc = "responded"
    /\ pc' = "idle"
    /\ req' = NoRequest
    /\ resp' = NoResponse
    /\ io' = NoIO
    /\ UNCHANGED <<store, fileState, written, workers, writer>>

Next == Receive \/ Handle \/ Reply

Spec == Init /\ [][Next]_vars

-----------------------------------------------------------------------------
(* Concurrent requests.  The handlers are plain def functions, which the   *)
(* framework runs on a thread pool: between a handler's load_data, its     *)
(* open(..., "w") and the close that flushes json.dump, the other handlers *)
(* run.  Nothing locks the file.                                           *)

ConcRequests ==
    {[op |-> "create", body |-> Body(i, "Ann", "Pune", 30, "Male", 100, 20)] : i \in CreateIds}
        \cup {[op |-> "create", body |-> Body("P001", "Ann", "Pune", 120, "Male", 100, 20)],
              [op |-> "update", id |-> "P001", body |-> [weight |-> Some(25)]],
              [op |-> "update", id |-> "P001", body |-> [name |-> Some("Bob")]],
              [op |-> "update", id |-> "P001", body |-> [age |-> None]]}

ConcInitStores == {<<>>, <<[id |-> "P001", rec |-> model_dump(Body("P001", "Ann", "Pune", 30, "Male", 100, 30))]>>}

ReqValid(r) == IF r.op = "create" THEN PatientValid(r.body) ELSE PatientUpdateValid(r.body)

\* the handler from load_data on, given the mapping it loaded
Loaded(data, r) ==
    IF r.op = "create" THEN create_loaded(data, Patient(r.body))
    ELSE update_loaded(data, r.id, r.body)

InitConc ==
    /\ store \in ConcInitStores
    /\ fileState = "json"
    /\ pc = "idle"
    /\ req = NoRequest
    /\ resp = NoResponse
    /\ io = NoIO
    /\ written = {}
    /\ workers = IdleWorkers
    /\ writer = 0

ConcReceive(w) ==
    /\ workers[w].pc = "idle"
    /\ \E r \in ConcRequests : workers' = [workers EXCEPT ![w] = [Idle EXCEPT !.pc = "received", !.req = r]]
    /\ UNCHANGED <<store, fileState, pc, req, resp, io, written, writer>>

\* body validation, load_data, and the handler up to save_data
ConcLoad(w) ==
    /\ workers[w].pc = "received"
    /\ LET r == workers[w].req
       IN  IF ~ReqValid(r)
           THEN workers' = [workers EXCEPT ![w].pc = "done", ![w].resp = RequestValidationError(store).resp]
           ELSE IF fileState # "json"
           THEN workers' = [workers EXCEPT ![w].pc = "done", ![w].resp = ServerError(store).resp]
           ELSE LET data == load_data(store)
                    l == Loaded(data, r)
                IN  workers' = [workers EXCEPT ![w].pc = IF l.save THEN "saving" ELSE "done",
                                               ![w].snap = data,
                                               ![w].data = l.data,
                                               ![w].resp = l.resp]
    /\ UNCHANGED <<store, fileState, pc, req, resp, io, written, writer>>

\* save_data, open("patients.json", "w"): the file is truncated
ConcOpen(w) ==
    /\ workers[w].pc = "saving"
    /\ fileState' = "empty"
    /\ workers' = [workers EXCEPT ![w].pc = "writing"]
    /\ UNCHANGED <<store, pc, req, resp, io, written, writer>>

\* what the file holds once data is flushed at offset 0: data itself over an
\* empty file or over content no longer than it, else data followed by the
\* rest of the longer content, which is no JSON document.  The lengths in
\* bytes are not modelled: over other content either outcome is taken
Flushed(state, content, data) ==
    IF state = "empty" \/ content = data THEN {"json"} ELSE {"json", "garbage"}

\* ConcWrite that writes its record into the file's current mapping
ConcWriteMerged(w) ==
    /\ workers[w].pc = "writing"
    /\ fileState' = "json"
    /\ store' = Put(store, ReqId(workers[w].req), Get(workers[w].data, ReqId(workers[w].req)))
    /\ writer' = w
    /\ workers' = [workers EXCEPT ![w].pc = "done"]
    /\ UNCHANGED <<pc, req, resp, io, written>>

\* save_data, json.dump and the close that flushes it
ConcWrite(w) ==
    /\ workers[w].pc = "writing"
    /\ fileState' \in Flushed(fileState, store, workers[w].data)
    /\ store' = save_data(workers[w].data)
    /\ writer' = w
    /\ workers' = [workers EXCEPT ![w].pc = "done"]
    /\ UNCHANGED <<pc, req, resp, io, written>>

NextConc ==
    \E w \in Workers :
        ConcReceive(w) \/ ConcLoad(w) \/ ConcOpen(w) \/ ConcWrite(w)

SpecConc == InitConc /\ [][NextConc]_vars

-----------------------------------------------------------------------------
(* Properties of the handlers, one request at a time (Spec) *)

\* the step that handles the received request
Handling(op) == pc = "received" /\ req.op = op

\* the state in which the request has just been answered
Handled(op) == pc = "responded" /\ req.op = op

\* C1: a Create with a valid record whose id is already a key fails with 400
\* "Patient ID already exists.", performs no save, and leaves the file as it was
C1_CreateConflict ==
    [][(Handling("create") /\ PatientValid(req.body) /\ Val(req.body["id"]) \in Keys(store))
        => (/\ resp'.status = 400
            /\ resp'.msg = "Patient ID already exists."
            /\ ~io'.saved
            /\ store' = store)]_vars

C1_Witness ==
    /\ Handled("create")
    /\ PatientValid(req.body)
    /\ resp.status = 400
    /\ Val(req.body["id"]) \in Keys(store)

\* C2: an Update with a valid patch on an id that is no key fails with 404,
\* leaves the file as it was and adds no key
C2_UpdateNotFound ==
    [][(Handling("update") /\ PatientUpdateValid(req.body) /\ req.id \notin Keys(store))
        => (/\ resp'.status = 404
            /\ ~io'.saved
            /\ Keys(store') = Keys(store)
            /\ store' = store)]_vars

C2_Witness ==
    /\ Handled("update")
    /\ resp.status = 404
    /\ req.id \notin Keys(store)
    /\ DOMAIN req.body = BaseFields
    /\ store # <<>>

\* C3: after a successful Update, each base field absent from the patch keeps
\* its stored value, each field present takes the patch's value, every other
\* record is as before, and the stored bmi and verdict are those of the merged
\* height and weight
C3_PartialUpdate ==
    [][(Handling("update") /\ resp'.status = 200)
        => (/\ req.id \in Keys(store)
            /\ Len(store') = Len(store)
            /\ \A i \in DOMAIN store :
                /\ store'[i].id = store[i].id
                /\ store[i].id # req.id => store'[i].rec = store[i].rec
            /\ LET old == Get(store, req.id)
                   new == Get(store', req.id)
               IN  /\ \A k \in BaseFields :
                        new[k] = IF k \in DOMAIN req.body THEN req.body[k] ELSE old[k]
                   /\ new["bmi"] = Some(bmi(new))
                   /\ new["verdict"] = verdict(new))]_vars

C3_Witness ==
    /\ Handled("update")
    /\ resp.status = 200
    /\ DOMAIN req.body = {"weight"}
    /\ Len(store) > 1
    /\ Get(store, req.id)["weight"] = req.body["weight"]
    /\ Get(store, req.id)["height"] = Some(150)

\* C4, as stated: the value stored under a written id has exactly the six
\* fields name, city, age, gender, height, weight
C4_SixFieldsOnly ==
    \A i \in DOMAIN store :
        store[i].id \in written => DOMAIN store[i].rec = BaseFields

\* C4, amended: the value stored under a written id has the six fields and the
\* two computed fields bmi and verdict, and no id
C4_EightFields ==
    \A i \in DOMAIN store :
        store[i].id \in written =>
            /\ DOMAIN store[i].rec = BaseFields \cup {"bmi", "verdict"}
            /\ "id" \notin DOMAIN store[i].rec

C4_Witness ==
    /\ Handled("update")
    /\ resp.status = 200
    /\ \E i, j \in DOMAIN store : i # j /\ store[i].id \in written /\ store[j].id \notin written

\* C5: the stored verdict is decided by the stored bmi alone: Underweight
\* below 18.5, Normal from 18.5 to below 25, Obese from 25 to below 30, and no
\* label at all from 30 on
C5_Verdict ==
    \A i \in DOMAIN store :
        "bmi" \in DOMAIN store[i].rec =>
            LET b == Val(store[i].rec["bmi"])
                v == store[i].rec["verdict"]
            IN  /\ b < 1850 => v = Some("Underweight")
                /\ (1850 <= b /\ b < 2500) => v = Some("Normal")
                /\ (2500 <= b /\ b < 3000) => v = Some("Obese")
                /\ b >= 3000 => v = None

C5_Witness ==
    /\ Len(store) > 1
    /\ \E i, j \in DOMAIN store :
        /\ "bmi" \in DOMAIN store[i].rec /\ "bmi" \in DOMAIN store[j].rec
        /\ store[i].rec["bmi"] = Some(3000) /\ store[i].rec["verdict"] = None
        /\ store[j].rec["bmi"] = Some(2500) /\ store[j].rec["verdict"] = Some("Obese")

\* the sort key of a record: the value of the field, 0 for a record without it
KeyOf(rec, f) == IF f \in DOMAIN rec THEN rec[f][1] ELSE 0

\* out lists vals in the order of the key, equal keys in the order of vals
StablySorted(out, vals, f, order) ==
    \E p \in [DOMAIN vals -> DOMAIN vals] :
        /\ \A i, j \in DOMAIN vals : i # j => p[i] # p[j]
        /\ out = [i \in DOMAIN vals |-> vals[p[i]]]
        /\ \A i, j \in DOMAIN vals :
            i < j =>
                \/ order = "asc" /\ KeyOf(vals[p[i]], f) < KeyOf(vals[p[j]], f)
                \/ order = "desc" /\ KeyOf(vals[p[i]], f) > KeyOf(vals[p[j]], f)
                \/ KeyOf(vals[p[i]], f) = KeyOf(vals[p[j]], f) /\ p[i] < p[j]

\* C6: Sort by height, weight or bmi, asc or desc, answers 200 with every
\* stored record once, in the order of the field (0 for a record without it),
\* records of equal key in their order in the file, in both directions
C6_SortStable ==
    (Handled("sort") /\ req.sort_by \in {"height", "weight", "bmi"} /\ req.order \in {"asc", "desc"})
        => (/\ resp.status = 200
            /\ StablySorted(resp.out, Values(store), req.sort_by, req.order))

C6_Witness ==
    /\ Handled("sort")
    /\ req.sort_by = "bmi"
    /\ req.order = "desc"
    /\ resp.status = 200
    /\ Len(resp.out) = 3
    /\ \E i \in 1..3 : "bmi" \notin DOMAIN resp.out[i]
    /\ \E i, j \in 1..3 : i # j /\ resp.out[i] # resp.out[j] /\ "bmi" \in DOMAIN resp.out[i]
                          /\ "bmi" \in DOMAIN resp.out[j] /\ resp.out[i]["bmi"] = resp.out[j]["bmi"]

\* C7: Sort with a field outside height, weight, bmi, or an order outside asc,
\* desc, fails with 400, returns no record, leaves the file as it was and does
\* not load it; the field is checked before the order
C7_SortInvalid ==
    [][(Handling("sort") /\ (req.sort_by \notin {"height", "weight", "bmi"} \/ req.order \notin {"asc", "desc"}))
        => (/\ resp'.status = 400
            /\ resp'.out = <<>>
            /\ store' = store
            /\ ~io'.loaded
            /\ resp'.msg = IF req.sort_by \notin {"height", "weight", "bmi"}
                           THEN "Invalid sort field" ELSE "Invalid order")]_vars

C7_Witness ==
    /\ Handled("sort")
    /\ req.sort_by = "name"
    /\ req.order = "up"
    /\ resp.status = 400
    /\ resp.msg = "Invalid sort field"
    /\ store # <<>>

\* the merged record of an Update: the stored fields overwritten by the fields
\* present in the patch
Merged(rec, patch) == [k \in DOMAIN rec \cup DOMAIN patch |-> IF k \in DOMAIN patch THEN patch[k] ELSE rec[k]]

\* the Record Model's constraints on the six fields of rec
MeetsConstraints(rec) ==
    /\ BaseFields \subseteq DOMAIN rec
    /\ \A k \in BaseFields : rec[k] # None
    /\ rec["age"][1] \in 1..119
    /\ rec["gender"][1] \in {"Male", "Female", "Other"}
    /\ rec["height"][1] > 0
    /\ rec["weight"][1] > 0

\* C8, as stated: an Update on an existing id whose merged record breaks the
\* Record Model's constraints is answered 422 and leaves the file as it was
C8_InvalidMerge422 ==
    [][(/\ Handling("update")
        /\ PatientUpdateValid(req.body)
        /\ req.id \in Keys(store)
        /\ ~MeetsConstraints(Merged(Get(store, req.id), req.body)))
        => (resp'.status = 422 /\ store' = store)]_vars

\* C10: every record of the file has the six fields, none null, with
\* 0 < age < 120, a gender of the three, height > 0 and weight > 0
C10_StoredRecordsValid ==
    \A i \in DOMAIN store : MeetsConstraints(store[i].rec)

C10_Witness ==
    /\ Handled("update")
    /\ req.id \in Keys(store)
    /\ \E k \in DOMAIN req.body : req.body[k] = None
    /\ resp.status = 500
    /\ Len(store) > 1

-----------------------------------------------------------------------------
(* Properties of concurrent requests (SpecConc) *)

Succeeded(w) == workers[w].pc = "done" /\ workers[w].resp.status \in {200, 201}

\* C9: with no mutual exclusion the last save wins: once a Create or Update
\* has succeeded and its save is the last to reach the file, the file holds
\* the mapping that handler loaded plus its own record and nothing else, so a
\* record or a field another handler saved in between is gone
C9_LastWriteWins ==
    \A w \in Workers :
        (Succeeded(w) /\ writer = w /\ fileState = "json") =>
            LET id == ReqId(workers[w].req)
                snap == workers[w].snap
            IN  /\ Keys(store) = Keys(snap) \cup {id}
                /\ \A k \in Keys(snap) \ {id} : Get(store, k) = Get(snap, k)
                /\ \A f \in BaseFields \ (IF workers[w].req.op = "update" THEN DOMAIN workers[w].req.body ELSE BaseFields) :
                        Get(store, id)[f] = Get(snap, id)[f]

\* both handlers answered success and the record one of them created is not
\* in the file
C9_Witness ==
    \E w, v \in Workers :
        /\ w # v
        /\ Succeeded(w) /\ Succeeded(v)
        /\ writer = w
        /\ fileState = "json"
        /\ workers[v].req.op = "create"
        /\ ReqId(workers[v].req) \notin Keys(store)

\* both Updates answered success and the field one of them set is as it was
C9_LostField ==
    \E w, v \in Workers :
        /\ w # v
        /\ Succeeded(w) /\ Succeeded(v)
        /\ writer = w
        /\ fileState = "json"
        /\ workers[v].req.op = "update" /\ workers[w].req.op = "update"
        /\ \E f \in DOMAIN workers[v].req.body :
            Get(store, ReqId(workers[v].req))[f] # workers[v].req.body[f]

=============================================================================
